---- MODULE Spec2Model ----
(***************************************************************************)
(* Contact-book data model of ex01/models.py: field validators (Name,      *)
(* Phone, Birthday), Record, AddressBook and the upcoming-birthdays query. *)
(* Strings are sequences of one-character strings; a date is a record      *)
(* [y, m, d]; an optional value is a sequence of length 0 or 1.            *)
(***************************************************************************)
EXTENDS Integers, Sequences, FiniteSets, TLC

\* ------------------------------------------------------------------ bounds
\* Years from which datetime.today() is drawn: FirstYear .. FirstYear+NumYears-1
FirstYear == 2023
NumYears == 2

\* ------------------------------------------------------- program constants
PhoneLen == 10
SATURDAY == 5
WindowDays == 7

\* ----------------------------------------------------------------- strings
AsciiDigits == {"0", "1", "2", "3", "4", "5", "6", "7", "8", "9"}

\* U+00B2 SUPERSCRIPT TWO: a character of Unicode category No, for which
\* str.isdigit() is true although it is not one of 0-9.
SuperscriptTwo == "sup2"

Whitespace == {" "}

DigitChars == <<"0", "1", "2", "3", "4", "5", "6", "7", "8", "9">>

DigitVal(c) == CHOOSE n \in 0..9 : DigitChars[n + 1] = c

\* str.isdigit() of one character
CharIsDigit(c) == c \in AsciiDigits \cup {SuperscriptTwo}

\* str.isdigit(): non-empty and every character is a digit character
isdigit(s) == Len(s) > 0 /\ \A i \in 1..Len(s) : CharIsDigit(s[i])

\* str.strip(): drop leading and trailing whitespace
RECURSIVE lstrip(_)
lstrip(s) == IF s # <<>> /\ Head(s) \in Whitespace THEN lstrip(Tail(s)) ELSE s

RECURSIVE rstrip(_)
rstrip(s) ==
    IF s # <<>> /\ s[Len(s)] \in Whitespace
    THEN rstrip(SubSeq(s, 1, Len(s) - 1))
    ELSE s

strip(s) == rstrip(lstrip(s))

\* ---------------------------------------------------------------- calendar
is_leap(y) == y % 4 = 0 /\ (y % 100 # 0 \/ y % 400 = 0)

days_in_month(y, m) ==
    IF m = 2 THEN (IF is_leap(y) THEN 29 ELSE 28)
    ELSE IF m \in {4, 6, 9, 11} THEN 30 ELSE 31

days_before_year(y) ==
    (y - 1) * 365 + ((y - 1) \div 4) - ((y - 1) \div 100) + ((y - 1) \div 400)

RECURSIVE days_before_month(_, _)
days_before_month(y, m) ==
    IF m = 1 THEN 0 ELSE days_before_month(y, m - 1) + days_in_month(y, m - 1)

\* date.toordinal()
toordinal(dt) == days_before_year(dt.y) + days_before_month(dt.y, dt.m) + dt.d

\* date.weekday(): Monday = 0 ... Sunday = 6
weekday(dt) == (toordinal(dt) + 6) % 7

\* a calendar date that datetime accepts (MINYEAR = 1, MAXYEAR = 9999)
valid_date(y, m, d) ==
    /\ y \in 1..9999
    /\ m \in 1..12
    /\ d \in 1..days_in_month(y, m)

\* date + timedelta(days = k), k >= 0
next_day(dt) ==
    IF dt.d < days_in_month(dt.y, dt.m) THEN [dt EXCEPT !.d = dt.d + 1]
    ELSE IF dt.m < 12 THEN [y |-> dt.y, m |-> dt.m + 1, d |-> 1]
    ELSE [y |-> dt.y + 1, m |-> 1, d |-> 1]

RECURSIVE add_days(_, _)
add_days(dt, k) == IF k = 0 THEN dt ELSE add_days(next_day(dt), k - 1)

\* date.replace(year = y): an optional date, empty where Python raises
\* ValueError ("day is out of range for month")
replace_year(dt, y) ==
    IF valid_date(y, dt.m, dt.d) THEN <<[y |-> y, m |-> dt.m, d |-> dt.d]>>
    ELSE <<>>

\* date.strftime("%Y.%m.%d")
fmt2(n) == <<DigitChars[(n \div 10) + 1], DigitChars[(n % 10) + 1]>>

fmt4(n) == fmt2(n \div 100) \o fmt2(n % 100)

strftime(dt) == fmt4(dt.y) \o <<".">> \o fmt2(dt.m) \o <<".">> \o fmt2(dt.d)

\* datetime.strptime(value, "%d.%m.%Y"): the format compiles to the regex
\*   (3[0-1]|[1-2]\d|0[1-9]|[1-9]| [1-9])\.(1[0-2]|0[1-9]|[1-9])\.(\d\d\d\d)
\* which must consume the whole string; the fields must then form a date.
match_d(s) ==
    \/ Len(s) = 2 /\ s[1] = "3" /\ s[2] \in {"0", "1"}
    \/ Len(s) = 2 /\ s[1] \in {"1", "2"} /\ s[2] \in AsciiDigits
    \/ Len(s) = 2 /\ s[1] = "0" /\ s[2] \in AsciiDigits \ {"0"}
    \/ Len(s) = 1 /\ s[1] \in AsciiDigits \ {"0"}
    \/ Len(s) = 2 /\ s[1] = " " /\ s[2] \in AsciiDigits \ {"0"}

match_m(s) ==
    \/ Len(s) = 2 /\ s[1] = "1" /\ s[2] \in {"0", "1", "2"}
    \/ Len(s) = 2 /\ s[1] = "0" /\ s[2] \in AsciiDigits \ {"0"}
    \/ Len(s) = 1 /\ s[1] \in AsciiDigits \ {"0"}

match_Y(s) == Len(s) = 4 /\ \A i \in 1..4 : s[i] \in AsciiDigits

RECURSIVE to_int(_)
to_int(s) ==
    IF s = <<>> THEN 0
    ELSE 10 * to_int(SubSeq(s, 1, Len(s) - 1)) + DigitVal(s[Len(s)])

\* an optional date: empty where strptime raises ValueError
strptime(s) ==
    LET dots == {i \in 1..Len(s) : s[i] = "."}
    IN  IF Cardinality(dots) # 2 THEN <<>>
        ELSE
          LET p1 == CHOOSE i \in dots : \A j \in dots : i <= j
              p2 == CHOOSE i \in dots : \A j \in dots : j <= i
              ds == SubSeq(s, 1, p1 - 1)
              ms == SubSeq(s, p1 + 1, p2 - 1)
              ys == SubSeq(s, p2 + 1, Len(s))
          IN  IF ~(match_d(ds) /\ match_m(ms) /\ match_Y(ys)) THEN <<>>
              ELSE
                LET d == to_int(lstrip(ds))
                    m == to_int(ms)
                    y == to_int(ys)
                IN  IF valid_date(y, m, d)
                    THEN <<[y |-> y, m |-> m, d |-> d]>>
                    ELSE <<>>

\* ------------------------------------------------------------ value objects
\* A constructor yields an optional value: empty where it raises ValueError.

\* Name.__init__: the stored value is the stripped string
Name(value) == IF strip(value) = <<>> THEN <<>> ELSE <<strip(value)>>

\* Phone.__init__
Phone(value) ==
    IF ~isdigit(value) \/ Len(value) # PhoneLen THEN <<>> ELSE <<value>>

\* Birthday.__init__ for a string argument: the stored value is the datetime
Birthday(value) == strptime(value)

\* --------------------------------------------------------------- Record
\* A record is [name, phones, birthday]; birthday is optional (<<>> = None).
\* An operation yields [outcome, rec]: the exception raised ("ok" for none)
\* and the record as the call leaves it.

\* Record.__init__: an optional record
Record(name) ==
    IF Name(name) = <<>> THEN <<>>
    ELSE <<[name |-> Name(name)[1], phones |-> <<>>, birthday |-> <<>>]>>

\* `x in list`, by Phone.__eq__ (equality of values)
contains(phones, v) == \E i \in 1..Len(phones) : phones[i] = v

\* list.index(x): the first position holding an equal element
index(phones, v) ==
    CHOOSE i \in 1..Len(phones) :
        phones[i] = v /\ \A j \in 1..(i - 1) : phones[j] # v

\* list.remove(x): drops the first equal element
list_remove(phones, v) ==
    LET i == index(phones, v)
    IN  SubSeq(phones, 1, i - 1) \o SubSeq(phones, i + 1, Len(phones))

\* add_birthday without the "birthday already exists" test
add_birthday_overwrites(rec, bday) ==
    IF Birthday(bday) = <<>> THEN [outcome |-> "ValueError", rec |-> rec]
    ELSE [outcome |-> "ok", rec |-> [rec EXCEPT !.birthday = Birthday(bday)]]

add_birthday(rec, bday) ==
    IF rec.birthday # <<>> THEN [outcome |-> "ValueError", rec |-> rec]
    ELSE IF Birthday(bday) = <<>> THEN [outcome |-> "ValueError", rec |-> rec]
    ELSE [outcome |-> "ok", rec |-> [rec EXCEPT !.birthday = Birthday(bday)]]

\* add_phone without the "phone already exists" test
add_phone_no_dup_test(rec, phone) ==
    IF Phone(phone) = <<>> THEN [outcome |-> "ValueError", rec |-> rec]
    ELSE [outcome |-> "ok",
          rec |-> [rec EXCEPT !.phones = Append(rec.phones, Phone(phone)[1])]]

add_phone(rec, phone) ==
    LET new_phone == Phone(phone)
    IN  IF new_phone = <<>> THEN [outcome |-> "ValueError", rec |-> rec]
        ELSE IF contains(rec.phones, new_phone[1])
        THEN [outcome |-> "ValueError", rec |-> rec]
        ELSE [outcome |-> "ok",
              rec |-> [rec EXCEPT !.phones = Append(rec.phones, new_phone[1])]]

remove_phone(rec, phone) ==
    IF Phone(phone) = <<>> THEN [outcome |-> "ValueError", rec |-> rec]
    ELSE IF ~contains(rec.phones, Phone(phone)[1])
    THEN [outcome |-> "ValueError", rec |-> rec]
    ELSE [outcome |-> "ok",
          rec |-> [rec EXCEPT !.phones = list_remove(rec.phones, Phone(phone)[1])]]

\* edit_phone that replaces the old phone first and tests for a duplicate of
\* the new one afterwards
edit_phone_late_test(rec, old_phone, new_phone) ==
    IF Phone(new_phone) = <<>> THEN [outcome |-> "ValueError", rec |-> rec]
    ELSE IF Phone(old_phone) = <<>> THEN [outcome |-> "ValueError", rec |-> rec]
    ELSE IF ~contains(rec.phones, Phone(old_phone)[1])
    THEN [outcome |-> "ValueError", rec |-> rec]
    ELSE [outcome |-> IF contains(rec.phones, Phone(new_phone)[1])
                      THEN "ValueError" ELSE "ok",
          rec |-> [rec EXCEPT !.phones[index(rec.phones, Phone(old_phone)[1])] =
                                 Phone(new_phone)[1]]]

edit_phone(rec, old_phone, new_phone) ==
    IF Phone(new_phone) = <<>> THEN [outcome |-> "ValueError", rec |-> rec]
    ELSE IF contains(rec.phones, Phone(new_phone)[1])
    THEN [outcome |-> "ValueError", rec |-> rec]
    ELSE IF Phone(old_phone) = <<>> THEN [outcome |-> "ValueError", rec |-> rec]
    ELSE IF ~contains(rec.phones, Phone(old_phone)[1])
    THEN [outcome |-> "ValueError", rec |-> rec]
    ELSE [outcome |-> "ok",
          rec |-> [rec EXCEPT !.phones[index(rec.phones, Phone(old_phone)[1])] =
                                 Phone(new_phone)[1]]]

\* ------------------------------------------------------------ AddressBook
\* self.data, a dict in insertion order: a sequence of [key, rec].
\* An operation yields [outcome, data].

keys(d) == {d[i].key : i \in 1..Len(d)}

\* dict.__setitem__: an existing key keeps its position, a new key goes last
setitem(d, k, rec) ==
    IF k \in keys(d)
    THEN [i \in 1..Len(d) |-> IF d[i].key = k THEN [key |-> k, rec |-> rec] ELSE d[i]]
    ELSE Append(d, [key |-> k, rec |-> rec])

\* dict.__delitem__
delitem(d, k) == SelectSeq(d, LAMBDA e : e.key # k)

\* add_record without the "already exists" test
add_record_replaces(d, record) ==
    [outcome |-> "ok", data |-> setitem(d, record.name, record)]

add_record(d, record) ==
    IF record.name \in keys(d) THEN [outcome |-> "ValueError", data |-> d]
    ELSE [outcome |-> "ok", data |-> setitem(d, record.name, record)]

delete(d, name) ==
    IF name \notin keys(d) THEN [outcome |-> "KeyError", data |-> d]
    ELSE [outcome |-> "ok", data |-> delitem(d, name)]

\* make_record(name, phones = None, birthday): yields [outcome, rec]
make_record(name, birthday) ==
    IF Record(name) = <<>> THEN [outcome |-> "ValueError", rec |-> <<>>]
    ELSE IF birthday # <<>>
    THEN add_birthday(Record(name)[1], birthday)
    ELSE [outcome |-> "ok", rec |-> Record(name)[1]]

\* ------------------------------------------------- get_upcoming_birthdays
\* record.birthday.value.date().replace(year=today.year) of one record: the
\* exception it raises, "ok" for none
bday_outcome(rec, today) ==
    IF rec.birthday = <<>> THEN "AttributeError"
    ELSE IF replace_year(rec.birthday[1], today.y) = <<>> THEN "ValueError"
    ELSE "ok"

\* the comprehension building bdays stops at the first record that raises
bdays_outcome(d, today) ==
    LET fails == {i \in 1..Len(d) : bday_outcome(d[i].rec, today) # "ok"}
    IN  IF fails = {} THEN "ok"
        ELSE bday_outcome(d[CHOOSE i \in fails : \A j \in fails : i <= j].rec, today)

bdays(d, today) ==
    [i \in 1..Len(d) |-> replace_year(d[i].rec.birthday[1], today.y)[1]]

\* timedelta(days=0) <= bday - today <= timedelta(days=7)
in_window(bday, today) ==
    /\ toordinal(bday) - toordinal(today) >= 0
    /\ toordinal(bday) - toordinal(today) <= WindowDays

\* optional dates: <<>> stands for None
congrat_dates(bs, today) ==
    [i \in 1..Len(bs) |-> IF in_window(bs[i], today) THEN <<bs[i]>> ELSE <<>>]

\* the weekend test with > for >=: only a Sunday is moved
shift_weekend_sunday_only(date) ==
    IF weekday(date) > SATURDAY
    THEN add_days(date, 7 - weekday(date))
    ELSE date

shift_weekend(date) ==
    IF weekday(date) >= SATURDAY
    THEN add_days(date, 7 - weekday(date))
    ELSE date

shifted_dates(cs) ==
    [i \in 1..Len(cs) |-> IF cs[i] # <<>> THEN <<shift_weekend(cs[i][1])>> ELSE <<>>]

\* the loop over zip(self.data.keys(), congrat_dates), from position i on
RECURSIVE zip_ret(_, _, _)
zip_ret(d, cs, i) ==
    IF i > Len(d) \/ i > Len(cs) THEN <<>>
    ELSE IF cs[i] # <<>>
    THEN <<[name |-> d[i].key, congratulation_date |-> strftime(cs[i][1])]>>
         \o zip_ret(d, cs, i + 1)
    ELSE zip_ret(d, cs, i + 1)

\* yields [outcome, ret]
get_upcoming_birthdays(d, today) ==
    IF Len(d) = 0 THEN [outcome |-> "ok", ret |-> <<>>]
    ELSE IF bdays_outcome(d, today) # "ok"
    THEN [outcome |-> bdays_outcome(d, today), ret |-> <<>>]
    ELSE [outcome |-> "ok",
          ret |-> zip_ret(d, shifted_dates(congrat_dates(bdays(d, today), today)), 1)]

\* ------------------------------------------------------------------ inputs
ones(n) == [i \in 1..n |-> "1"]

RawNames == {<<"a">>, <<" ", "a", " ">>, <<"b">>, <<" ">>, <<>>}

\* arguments of the phone operations on a record
PhoneInputs ==
    { ones(PhoneLen),
      <<"2">> \o ones(PhoneLen - 1),
      <<"a">> \o ones(PhoneLen - 1),
      ones(PhoneLen - 1) }

\* arguments of the Phone constructor: strings of PhoneLen - 1 .. PhoneLen + 1
\* characters, all "1" but at most one
PhoneChars == {"0", "1", "9", "a", " ", "+", SuperscriptTwo}

PhoneStrings ==
    {<<>>} \cup
    UNION { { [ones(n) EXCEPT ![i] = c] : i \in 1..n, c \in PhoneChars } :
            n \in (PhoneLen - 1)..(PhoneLen + 1) }

\* arguments of add_birthday on a record
BirthdayInputs ==
    { <<"2", "9", ".", "0", "2", ".", "2", "0", "0", "0">>,
      <<"1", "5", ".", "0", "6", ".", "2", "0", "0", "0">>,
      <<"3", "0", ".", "0", "2", ".", "2", "0", "0", "0">>,
      <<"2", "0", "0", "0", "-", "0", "6", "-", "1", "5">> }

\* birthday arguments of make_record, the empty string for "no birthday"
ContactBirthdays ==
    BirthdayInputs \cup
    { <<>>,
      <<"3", "1", ".", "1", "2", ".", "1", "9", "9", "9">>,
      <<"0", "2", ".", "0", "1", ".", "2", "0", "0", "1">>,
      <<"1", "6", ".", "0", "6", ".", "2", "0", "0", "1">> }

Years == FirstYear..(FirstYear + NumYears - 1)

\* the values datetime.today().date() takes: the days of Years around the
\* turn of the year, the end of February and the middle of June
Todays ==
    {dt \in [y : Years, m : {1, 2, 3, 6, 12}, d : 1..31] :
        /\ valid_date(dt.y, dt.m, dt.d)
        /\ \/ dt.m = 12 /\ dt.d >= 22
           \/ dt.m = 1 /\ dt.d <= 3
           \/ dt.m = 2 /\ dt.d >= 20
           \/ dt.m = 3 /\ dt.d = 1
           \/ dt.m = 6 /\ dt.d \in 6..17}

\* ------------------------------------------------------------------- state
VARIABLES
    data,       \* AddressBook.data
    call,       \* the last call: its name, the key of the record it is made
                \* on, its string arguments, and today for the query
    outcome,    \* the exception the last call raised, "ok" for none
    ret         \* what the last call returned or constructed (<<>> for None)

vars == <<data, call, outcome, ret>>

NoCall == [op |-> "", key |-> <<>>, arg |-> <<>>, arg2 |-> <<>>, today |-> <<>>]

Init ==
    /\ data = <<>>
    /\ call = NoCall
    /\ outcome = "ok"
    /\ ret = <<>>

\* book.add_record(Record(name))
AddRecord ==
    \E name \in RawNames :
        /\ call' = [NoCall EXCEPT !.op = "add_record", !.arg = name]
        /\ ret' = <<>>
        /\ IF Record(name) = <<>>
           THEN outcome' = "ValueError" /\ data' = data
           ELSE LET r == add_record(data, Record(name)[1])
                IN  outcome' = r.outcome /\ data' = r.data

\* book.add_record(make_record(name, [], birthday)), as main() does
AddContact ==
    \E name \in RawNames, birthday \in ContactBirthdays :
        /\ call' = [NoCall EXCEPT !.op = "add_record", !.arg = name,
                                  !.arg2 = birthday]
        /\ ret' = <<>>
        /\ IF make_record(name, birthday).outcome # "ok"
           THEN outcome' = make_record(name, birthday).outcome /\ data' = data
           ELSE LET r == add_record(data, make_record(name, birthday).rec)
                IN  outcome' = r.outcome /\ data' = r.data

\* Phone(value), on its own
ConstructPhone ==
    \E value \in PhoneStrings :
        /\ call' = [NoCall EXCEPT !.op = "Phone", !.arg = value]
        /\ ret' = Phone(value)
        /\ outcome' = IF Phone(value) = <<>> THEN "ValueError" ELSE "ok"
        /\ data' = data

\* book.delete(name)
Delete ==
    \E name \in RawNames :
        LET r == delete(data, name)
        IN  /\ call' = [NoCall EXCEPT !.op = "delete", !.arg = name]
            /\ ret' = <<>>
            /\ outcome' = r.outcome
            /\ data' = r.data

\* book.find(key).add_birthday(bday)
AddBirthday ==
    \E i \in 1..Len(data), bday \in BirthdayInputs :
        LET r == add_birthday(data[i].rec, bday)
        IN  /\ call' = [NoCall EXCEPT !.op = "add_birthday",
                                      !.key = data[i].key, !.arg = bday]
            /\ ret' = <<>>
            /\ outcome' = r.outcome
            /\ data' = [data EXCEPT ![i].rec = r.rec]

\* book.find(key).add_phone(phone)
AddPhone ==
    \E i \in 1..Len(data), phone \in PhoneInputs :
        LET r == add_phone(data[i].rec, phone)
        IN  /\ call' = [NoCall EXCEPT !.op = "add_phone",
                                      !.key = data[i].key, !.arg = phone]
            /\ ret' = <<>>
            /\ outcome' = r.outcome
            /\ data' = [data EXCEPT ![i].rec = r.rec]

\* book.find(key).remove_phone(phone)
RemovePhone ==
    \E i \in 1..Len(data), phone \in PhoneInputs :
        LET r == remove_phone(data[i].rec, phone)
        IN  /\ call' = [NoCall EXCEPT !.op = "remove_phone",
                                      !.key = data[i].key, !.arg = phone]
            /\ ret' = <<>>
            /\ outcome' = r.outcome
            /\ data' = [data EXCEPT ![i].rec = r.rec]

\* book.find(key).edit_phone(old_phone, new_phone)
EditPhone ==
    \E i \in 1..Len(data), old_phone \in PhoneInputs, new_phone \in PhoneInputs :
        LET r == edit_phone(data[i].rec, old_phone, new_phone)
        IN  /\ call' = [NoCall EXCEPT !.op = "edit_phone", !.key = data[i].key,
                                      !.arg = old_phone, !.arg2 = new_phone]
            /\ ret' = <<>>
            /\ outcome' = r.outcome
            /\ data' = [data EXCEPT ![i].rec = r.rec]

\* book.get_upcoming_birthdays(), datetime.today() being any day of Years
GetUpcomingBirthdays ==
    \E today \in Todays :
        LET r == get_upcoming_birthdays(data, today)
        IN  /\ call' = [NoCall EXCEPT !.op = "get_upcoming_birthdays",
                                      !.today = <<today>>]
            /\ ret' = r.ret
            /\ outcome' = r.outcome
            /\ data' = data

\* the record operations and the book's insertions and deletions
Next ==
    \/ AddRecord
    \/ Delete
    \/ AddBirthday
    \/ AddPhone
    \/ RemovePhone
    \/ EditPhone

Spec == Init /\ [][Next]_vars

\* the book with birthdays and the upcoming-birthdays query
NextBirthdays ==
    \/ AddContact
    \/ Delete
    \/ GetUpcomingBirthdays

SpecBirthdays == Init /\ [][NextBirthdays]_vars

\* the Phone constructor as a function of its argument
NextPhone == ConstructPhone

SpecPhone == Init /\ [][NextPhone]_vars

\* =================================================================== claims
\* Vocabulary of the properties, independent of the operations above.

IsQuery == call.op = "get_upcoming_birthdays"

Today == call.today[1]

HasBirthday(e) == e.rec.birthday # <<>>

\* the records of d that satisfy Keep(_), in d's order
Restrict(d, Keep(_)) == SelectSeq(d, Keep)

NamesOf(r) == [j \in 1..Len(r) |-> r[j].name]

KeysOf(d) == [i \in 1..Len(d) |-> d[i].key]

\* the entry of the book stored under a key
EntryOf(k) == data[CHOOSE i \in 1..Len(data) : data[i].key = k]

\* reads "YYYY.MM.DD" back into a date
ParseYmd(s) ==
    [y |-> 1000 * DigitVal(s[1]) + 100 * DigitVal(s[2]) + 10 * DigitVal(s[3]) + DigitVal(s[4]),
     m |-> 10 * DigitVal(s[6]) + DigitVal(s[7]),
     d |-> 10 * DigitVal(s[9]) + DigitVal(s[10])]

IsYmd(s) ==
    /\ Len(s) = 10
    /\ s[5] = "." /\ s[8] = "."
    /\ \A i \in {1, 2, 3, 4, 6, 7, 9, 10} : s[i] \in AsciiDigits
    /\ valid_date(ParseYmd(s).y, ParseYmd(s).m, ParseYmd(s).d)

\* day of the week counted from Monday 1 January 2001
Monday2001 == [y |-> 2001, m |-> 1, d |-> 1]

DayOfWeek(dt) == (toordinal(dt) - toordinal(Monday2001)) % 7

\* the birthday's month and day in today's year, where that date exists
ThisYear(b, t) == [y |-> t.y, m |-> b.m, d |-> b.d]

ExistsThisYear(b, t) == valid_date(t.y, b.m, b.d)

DaysUntil(b, t) == toordinal(ThisYear(b, t)) - toordinal(t)

IsFeb29(b) == b.m = 2 /\ b.d = 29

\* C1: the query completes when the book holds records without a birthday;
\* they never appear in the result, and the result is that of the book
\* without them (stated for books whose other records the query can process).
C1_BirthdaylessRecordsSkipped ==
    (/\ IsQuery
     /\ \E i \in 1..Len(data) : ~HasBirthday(data[i])
     /\ get_upcoming_birthdays(Restrict(data, HasBirthday), Today).outcome = "ok")
    => /\ outcome = "ok"
       /\ \A j \in 1..Len(ret) : HasBirthday(EntryOf(ret[j].name))
       /\ ret = get_upcoming_birthdays(Restrict(data, HasBirthday), Today).ret

\* C2: with a 29 February birthday in the book and today in a non-leap year
\* the query does not fail: its result is that of the book with such records
\* moved to 28 February, or that of the book without them.
Feb28(e) ==
    IF HasBirthday(e) /\ IsFeb29(e.rec.birthday[1])
    THEN [e EXCEPT !.rec.birthday[1].d = 28]
    ELSE e

NotFeb29(e) == ~(HasBirthday(e) /\ IsFeb29(e.rec.birthday[1]))

C2_Feb29InNonLeapYear ==
    (/\ IsQuery
     /\ ~is_leap(Today.y)
     /\ \A i \in 1..Len(data) : HasBirthday(data[i])
     /\ \E i \in 1..Len(data) : IsFeb29(data[i].rec.birthday[1]))
    => /\ outcome = "ok"
       /\ \/ ret = get_upcoming_birthdays([i \in 1..Len(data) |-> Feb28(data[i])], Today).ret
          \/ ret = get_upcoming_birthdays(Restrict(data, NotFeb29), Today).ret

\* C3: when every record has a birthday, the names of the result are the
\* book's keys, in order, of exactly the records whose birthday in today's
\* year is 0 to 7 days after today, each paired with a date of its own.
InWindow(e) ==
    /\ ExistsThisYear(e.rec.birthday[1], Today)
    /\ DaysUntil(e.rec.birthday[1], Today) \in 0..WindowDays

C3_ResultIsWindowInBookOrder ==
    (IsQuery /\ \A i \in 1..Len(data) : HasBirthday(data[i]))
    => /\ outcome = "ok"
       /\ NamesOf(ret) = KeysOf(Restrict(data, InWindow))
       /\ \A j \in 1..Len(ret) :
            /\ IsYmd(ret[j].congratulation_date)
            /\ toordinal(ParseYmd(ret[j].congratulation_date))
                 - toordinal(ThisYear(EntryOf(ret[j].name).rec.birthday[1], Today))
               \in 0..2

\* C4: a kept record's congratulation date is its birthday d in today's year
\* when d is Monday to Friday, d + 2 days for a Saturday, d + 1 day for a
\* Sunday: always a Monday-to-Friday date not before d, and the first Monday
\* after d when moved.
CongratulationOf(j) == ParseYmd(ret[j].congratulation_date)

BirthdayOf(j) == ThisYear(EntryOf(ret[j].name).rec.birthday[1], Today)

Moved(j) == toordinal(CongratulationOf(j)) - toordinal(BirthdayOf(j))

C4_WeekendMovedToMonday ==
    (IsQuery /\ outcome = "ok")
    => \A j \in 1..Len(ret) :
         /\ ret[j].name \in keys(data)
         /\ HasBirthday(EntryOf(ret[j].name))
         /\ IsYmd(ret[j].congratulation_date)
         /\ DayOfWeek(BirthdayOf(j)) \in 0..4 => Moved(j) = 0
         /\ DayOfWeek(BirthdayOf(j)) = 5 => Moved(j) = 2
         /\ DayOfWeek(BirthdayOf(j)) = 6 => Moved(j) = 1
         /\ DayOfWeek(CongratulationOf(j)) \in 0..4
         /\ Moved(j) >= 0
         /\ Moved(j) # 0 => DayOfWeek(CongratulationOf(j)) = 0 /\ Moved(j) <= 7

\* a result holding a birthday moved from a Saturday and one moved from a
\* Sunday
C4_Witness ==
    /\ IsQuery /\ outcome = "ok"
    /\ \E j \in 1..Len(ret) : DayOfWeek(BirthdayOf(j)) = 5 /\ Moved(j) = 2
    /\ \E j \in 1..Len(ret) : DayOfWeek(BirthdayOf(j)) = 6 /\ Moved(j) = 1

\* C5: whenever the query returns, it lists every record whose next birthday,
\* on or after today, is at most 7 days away, the days after 31 December
\* included.
NextBirthdayWithinWindow(b, t) ==
    \E k \in 0..WindowDays : add_days(t, k).m = b.m /\ add_days(t, k).d = b.d

C5_NextSevenDays ==
    (IsQuery /\ outcome = "ok")
    => \A i \in 1..Len(data) :
         (HasBirthday(data[i]) /\ NextBirthdayWithinWindow(data[i].rec.birthday[1], Today))
         => \E j \in 1..Len(ret) : ret[j].name = data[i].key

\* the record a record operation was called on, before and after the call
Target == EntryOf(call.key).rec

IsRecordCall(op) == call.op = op /\ call.key \in keys(data)

NoDuplicates(phones) ==
    \A i, j \in 1..Len(phones) : phones[i] = phones[j] => i = j

\* C6: a call of add_phone, remove_phone, edit_phone, add_birthday, add_record
\* or delete that ends with an error leaves every record's phones and
\* birthday and the book's mapping as they were.
C6_FailureChangesNothing == [][outcome' # "ok" => data' = data]_vars

\* edit_phone(old, new) refused on a record that holds both old and new
C6_Witness ==
    /\ IsRecordCall("edit_phone")
    /\ outcome = "ValueError"
    /\ call.arg # call.arg2
    /\ contains(Target.phones, call.arg)
    /\ contains(Target.phones, call.arg2)

\* C7: no record ever holds two equal phones; add_phone of a phone the record
\* holds fails, and so does edit_phone(old, new) when the record holds new,
\* old = new included.
C7_PhonesUnique ==
    [][/\ \A i \in 1..Len(data) : NoDuplicates(data[i].rec.phones)
       /\ \A i \in 1..Len(data') : NoDuplicates(data'[i].rec.phones)
       /\ \A i \in 1..Len(data) :
            (/\ call'.op = "add_phone"
             /\ call'.key = data[i].key
             /\ contains(data[i].rec.phones, call'.arg))
            => outcome' # "ok"
       /\ \A i \in 1..Len(data) :
            (/\ call'.op = "edit_phone"
             /\ call'.key = data[i].key
             /\ contains(data[i].rec.phones, call'.arg2))
            => outcome' # "ok"]_vars

\* edit_phone(p, p) refused on a record that holds p and another phone
C7_Witness ==
    /\ IsRecordCall("edit_phone")
    /\ outcome = "ValueError"
    /\ call.arg = call.arg2
    /\ contains(Target.phones, call.arg)
    /\ Len(Target.phones) = 2

\* C8: keys are pairwise distinct and each is the stripped, non-empty name of
\* its record; add_record of a record whose name is a key fails and leaves
\* the book, the record under that key included, as it was.
KeysAreNames(d) ==
    /\ \A i, j \in 1..Len(d) : d[i].key = d[j].key => i = j
    /\ \A i \in 1..Len(d) :
         /\ d[i].key = d[i].rec.name
         /\ d[i].key # <<>>
         /\ d[i].key[1] # " " /\ d[i].key[Len(d[i].key)] # " "

C8_NamesUnique ==
    [][/\ KeysAreNames(data)
       /\ KeysAreNames(data')
       /\ \A i \in 1..Len(data) :
            (/\ call'.op = "add_record"
             /\ \E n \in 0..Len(call'.arg), k \in 0..Len(call'.arg) :
                  /\ \A x \in 1..n : call'.arg[x] = " "
                  /\ \A x \in (Len(call'.arg) - k + 1)..Len(call'.arg) : call'.arg[x] = " "
                  /\ SubSeq(call'.arg, n + 1, Len(call'.arg) - k) = data[i].key)
            => outcome' # "ok" /\ data' = data]_vars

\* add_record of an unstripped duplicate of the name of a record with phones
C8_Witness ==
    /\ call.op = "add_record"
    /\ outcome = "ValueError"
    /\ Len(call.arg) > 1
    /\ \E i \in 1..Len(data) :
         /\ call.arg[2] = data[i].key[1]
         /\ Len(data[i].key) = 1
         /\ data[i].rec.phones # <<>>
    /\ Len(data) = 2

\* C9: a record enters the book without a birthday; add_birthday on a record
\* without one sets it when the argument is a valid date string and fails,
\* leaving it unset, otherwise; on a record with a birthday every add_birthday
\* fails, and no call changes the birthday of a record that stays in the book.
IsDateString(s) == Birthday(s) # <<>>

DateOf(s) == Birthday(s)[1]

C9_BirthdaySetOnce ==
    [][/\ \A j \in 1..Len(data') :
            data'[j].key \notin keys(data) => data'[j].rec.birthday = <<>>
       /\ \A i \in 1..Len(data), j \in 1..Len(data') :
            (data'[j].key = data[i].key /\ data[i].rec.birthday # <<>>)
            => data'[j].rec.birthday = data[i].rec.birthday
       /\ \A i \in 1..Len(data) :
            (call'.op = "add_birthday" /\ call'.key = data[i].key)
            => /\ data[i].rec.birthday # <<>> => outcome' # "ok"
               /\ (data[i].rec.birthday = <<>> /\ IsDateString(call'.arg))
                  => /\ outcome' = "ok"
                     /\ data'[i].rec.birthday = <<DateOf(call'.arg)>>
               /\ (data[i].rec.birthday = <<>> /\ ~IsDateString(call'.arg))
                  => /\ outcome' # "ok"
                     /\ data'[i].rec.birthday = <<>>]_vars

\* a second add_birthday, with a valid date other than the stored one, refused
C9_Witness ==
    /\ IsRecordCall("add_birthday")
    /\ outcome = "ValueError"
    /\ IsDateString(call.arg)
    /\ Target.birthday # <<>>
    /\ Target.birthday # <<DateOf(call.arg)>>

\* C10: Phone(value) succeeds, storing value unchanged, exactly when value is
\* a string of 10 characters each of which is one of 0-9.
TenDecimalDigits(s) == Len(s) = 10 /\ \A i \in 1..Len(s) : s[i] \in AsciiDigits

C10_PhoneIsTenDecimalDigits ==
    call.op = "Phone"
    => /\ outcome = "ok" <=> TenDecimalDigits(call.arg)
       /\ outcome = "ok" => ret = <<call.arg>>

====
